---- MODULE Spec2Model ----
(***************************************************************************)
(* Model of mn_vote_monitor.py: one run of run_vote_monitor against a      *)
(* Cirrus node and the SDA DAO contract.  The node and the contract are    *)
(* external: every answer they give is an input, chosen when the query is  *)
(* issued.  Python dicts are modelled as sequences of <<key, value>> pairs *)
(* in insertion order, lists as sequences, None as the string "None".      *)
(***************************************************************************)
EXTENDS Integers, Sequences, FiniteSets

\* ------------------------------------------------------------------ bounds
MaxFedMembers == 1      \* most members federation.members() returns
MaxProposals == 3       \* highest value LastProposalId returns

\* ------------------------------------------------------------- value sets
None == "None"
Keys == {"PKA", "PKB"}
KeyOrder == <<"PKA", "PKB">>            \* the string order of the keys
Addrs == {"A1", "A2"}
ConfigNames == {"SDA_CONTRACT_ADDRESS", "SENDER_ADDRESS"}
VoteCodes == {0, 1, 2, 3}               \* GetVote: NoVote, No, Yes; 3: any other answer
Header == "**The following fedkeys were eligible and have not voted for the last 3 completed proposal votes:**"

\* one output of a transaction: script_pubkey.type and script_pubkey.addresses[0]
Vouts == [type : {"pubkey", "pubkeyhash"}, address : Addrs]
             \cup {[type |-> "nulldata", address |-> None]}
\* a block is its list of transactions, each the list of its outputs
TxSet == {<<>>} \cup {<<v>> : v \in Vouts}
             \cup {<<[type |-> "nulldata", address |-> None], v>> : v \in Vouts}
BlockSet == {<<>>} \cup {<<t>> : t \in TxSet}
             \cup {<<<<[type |-> "nulldata", address |-> None]>>, t>> : t \in TxSet}

\* the chain height the run is started at, and the deadlines GetVotingDeadline
\* may answer for a chain at height h: unset (0), passed (1, h - 1) and not yet
\* passed (h, h + 1)
BlockCounts == {3 * MaxFedMembers + 1}
EndingHeights(h) == {0, 1, h - 1, h, h + 1}

\* ------------------------------------------------------------ dict helpers
DictKeys(d) == {d[j][1] : j \in 1..Len(d)}
DictHas(d, k) == \E j \in 1..Len(d) : d[j][1] = k
DictGet(d, k) == d[CHOOSE j \in 1..Len(d) : d[j][1] = k][2]
\* d[k] = v: a new key is appended, an existing key keeps its position
DictSet(d, k, v) ==
    IF DictHas(d, k)
    THEN [j \in 1..Len(d) |-> IF d[j][1] = k THEN <<k, v>> ELSE d[j]]
    ELSE Append(d, <<k, v>>)

\* range(a, b) as the list of its values
range(a, b) == [j \in 1..(IF b > a THEN b - a ELSE 0) |-> a + j - 1]

VARIABLES
    pc,                         \* position in run_vote_monitor
    failure,                    \* the exception that ended the run, or None
    queries,                    \* kinds of node / contract queries issued so far
    config,                     \* names the configuration defines
    block_count,                \* node.blockstore.get_block_count()
    current_block_height,
    lookback,                   \* num_fed_members * 3, line 345
    i,                          \* next height of the resolver's scan
    scanned,                    \* what the scan saw: [height, pubkey, address]
    fedkey_to_address_map,
    address_to_fedkey_map,
    highest_proposal_id,
    deadlines,                  \* GetVotingDeadline of ids 1.., as queried
    index,                      \* loop index of the loop at pc
    best_completed_proposal_id,
    num_sda_proposals,
    current_whitelisted_fed_addresses,
    fed_member_votes,
    address_index,              \* position of tabulate's outer loop
    get_vote_queries,           \* number of GetVote queries issued
    federation_at_end_of_third_last_proposal,
    nonvoting_fedkeys,
    output

vars == <<pc, failure, queries, config, block_count,
          current_block_height, lookback, i, scanned, fedkey_to_address_map,
          address_to_fedkey_map, highest_proposal_id, deadlines, index,
          best_completed_proposal_id, num_sda_proposals,
          current_whitelisted_fed_addresses, fed_member_votes,
          address_index, get_vote_queries,
          federation_at_end_of_third_last_proposal, nonvoting_fedkeys, output>>

envVars == <<config, block_count>>
resolverVars == <<current_block_height, lookback, i, scanned, fedkey_to_address_map>>
locatorVars == <<highest_proposal_id, deadlines, best_completed_proposal_id,
                 num_sda_proposals>>
tabulateVars == <<current_whitelisted_fed_addresses, fed_member_votes,
                  address_index, get_vote_queries>>
reportVars == <<federation_at_end_of_third_last_proposal, nonvoting_fedkeys, output>>

Init ==
    /\ pc = "start"
    /\ failure = None
    /\ queries = {}
    /\ config \in SUBSET ConfigNames
    /\ block_count \in BlockCounts
    /\ lookback = 0
    /\ current_block_height = 0
    /\ i = 0
    /\ scanned = <<>>
    /\ fedkey_to_address_map = <<>>
    /\ address_to_fedkey_map = <<>>
    /\ highest_proposal_id = 0
    /\ deadlines = <<>>
    /\ index = 0
    /\ best_completed_proposal_id = 0
    /\ num_sda_proposals = 0
    /\ current_whitelisted_fed_addresses = <<>>
    /\ fed_member_votes = <<>>
    /\ address_index = 0
    /\ get_vote_queries = 0
    /\ federation_at_end_of_third_last_proposal = {}
    /\ nonvoting_fedkeys = <<>>
    /\ output = <<>>

\* ---------------------------------------------- get_current_federation_pubkeys
\* run_vote_monitor, lines 342-345: the number of current federation members is
\* read for the lookback only
get_current_federation_pubkeys ==
    /\ pc = "start"
    /\ \E num_fed_members \in 0..MaxFedMembers : lookback' = num_fed_members * 3
    /\ queries' = queries \cup {"federation_members"}
    /\ pc' = "resolver"
    /\ UNCHANGED <<failure, envVars, current_block_height, i, scanned,
                   fedkey_to_address_map, address_to_fedkey_map, locatorVars,
                   index, tabulateVars, reportVars>>

\* ------------------------------------------------- get_address_to_fedkey_map
RECURSIVE Flatten(_)
\* the outputs of a block in the order the two loops visit them
Flatten(block) ==
    IF block = <<>> THEN <<>> ELSE Head(block) \o Flatten(Tail(block))

IsStandard(vout) == vout.type \in {"pubkey", "pubkeyhash"}

\* <<pubkey, address>> of the first pubkey / pubkeyhash output, or <<>> when the
\* loops end without a return (the function then returns None)
get_pubkey_and_address_for_height(pubkey, block) ==
    LET standard == SelectSeq(Flatten(block), IsStandard)
    IN  IF standard = <<>> THEN <<>> ELSE <<pubkey, Head(standard).address>>

\* the record without the membership test: the last sighting wins
RecordFedkeyLastWins(map, pubkey, address) ==
    IF pubkey # None THEN DictSet(map, pubkey, address) ELSE map

\* lines 96-97: only add to the dictionary if not already in it
RecordFedkey(map, pubkey, address) ==
    IF pubkey # None /\ ~DictHas(map, pubkey)
    THEN DictSet(map, pubkey, address)
    ELSE map

RECURSIVE InvertFrom(_, _, _)
InvertFrom(map, j, acc) ==
    IF j > Len(map) THEN acc
    ELSE InvertFrom(map, j + 1, DictSet(acc, map[j][2], map[j][1]))

RECURSIVE InvertKeepFirstFrom(_, _, _)
InvertKeepFirstFrom(map, j, acc) ==
    IF j > Len(map) THEN acc
    ELSE InvertKeepFirstFrom(map, j + 1,
             IF DictHas(acc, map[j][2]) THEN acc
             ELSE DictSet(acc, map[j][2], map[j][1]))

\* an inversion in which the first key of an address is kept, not the last
InvertMapKeepFirst(map) == InvertKeepFirstFrom(map, 1, <<>>)

\* line 99: {str(v): k for k, v in fedkey_to_address_map.items()}
InvertMap(map) == InvertFrom(map, 1, <<>>)

\* lines 89-91
resolver_start ==
    /\ pc = "resolver"
    /\ fedkey_to_address_map' = <<>>
    /\ current_block_height' = block_count
    /\ i' = block_count - lookback
    /\ scanned' = <<>>
    /\ queries' = queries \cup {"block_count"}
    /\ pc' = "scan"
    /\ UNCHANGED <<failure, envVars, lookback, address_to_fedkey_map, locatorVars,
                   index, tabulateVars, reportVars>>

\* lines 93-97, one height of the scan
resolver_scan_height ==
    /\ pc = "scan"
    /\ i < current_block_height
    /\ queries' = queries \cup {"miner_at_height", "blockhash", "block"}
    /\ \E pubkey \in Keys \cup {None}, block \in BlockSet :
         LET result == get_pubkey_and_address_for_height(pubkey, block)
         IN  IF result = <<>>
             THEN \* line 94: unpacking None raises TypeError
                  /\ scanned' = Append(scanned,
                         [height |-> i, pubkey |-> pubkey, address |-> None])
                  /\ failure' = "TypeError"
                  /\ pc' = "failed"
                  /\ UNCHANGED <<i, fedkey_to_address_map>>
             ELSE /\ scanned' = Append(scanned,
                         [height |-> i, pubkey |-> pubkey, address |-> result[2]])
                  /\ fedkey_to_address_map' =
                         RecordFedkey(fedkey_to_address_map, result[1], result[2])
                  /\ i' = i + 1
                  /\ UNCHANGED <<failure, pc>>
    /\ UNCHANGED <<envVars, current_block_height, lookback, address_to_fedkey_map,
                   locatorVars, index, tabulateVars, reportVars>>

\* lines 98-100
resolver_return ==
    /\ pc = "scan"
    /\ i >= current_block_height
    /\ address_to_fedkey_map' = InvertMap(fedkey_to_address_map)
    /\ pc' = "last_proposal_id"
    /\ UNCHANGED <<failure, queries, envVars, resolverVars, locatorVars, index,
                   tabulateVars, reportVars>>

\* ------------------------------------------------------------ configuration
\* config(name) of a name the configuration lacks raises UndefinedValueError;
\* every local_call reads SDA_CONTRACT_ADDRESS, then SENDER_ADDRESS, while its
\* arguments are evaluated, before the call is made (lines 116, 121)
\* a configuration whose sender address alone is looked up
ConfigErrorSenderOnly(cfg) ==
    IF "SENDER_ADDRESS" \notin cfg THEN "UndefinedValueError" ELSE None

ConfigError(cfg) ==
    IF "SDA_CONTRACT_ADDRESS" \notin cfg THEN "UndefinedValueError"
    ELSE IF "SENDER_ADDRESS" \notin cfg THEN "UndefinedValueError"
    ELSE None

\* ----------------------------------------------------- get_last_proposal_id
\* line 348; the frame of get_address_to_fedkey_map is gone by now
get_last_proposal_id ==
    /\ pc = "last_proposal_id"
    /\ current_block_height' = 0
    /\ lookback' = 0
    /\ i' = 0
    /\ scanned' = <<>>
    /\ fedkey_to_address_map' = <<>>
    /\ IF ConfigError(config) # None
       THEN /\ failure' = ConfigError(config)
            /\ pc' = "failed"
            /\ UNCHANGED <<queries, highest_proposal_id>>
       ELSE /\ queries' = queries \cup {"local_call"}
            /\ \E h \in 0..MaxProposals : highest_proposal_id' = h
            /\ pc' = "locator"
            /\ UNCHANGED failure
    /\ UNCHANGED <<envVars, address_to_fedkey_map, deadlines,
                   best_completed_proposal_id, num_sda_proposals, index,
                   tabulateVars, reportVars>>

\* ------------------------------------------- get_last_completed_proposal_id
\* the comparison with <= in place of <
BestCompletedInclusive(best, proposal_id, ending_height, height) ==
    IF ending_height <= height /\ ending_height # 0 THEN proposal_id ELSE best

\* lines 197-198
BestCompleted(best, proposal_id, ending_height, height) ==
    IF ending_height < height /\ ending_height # 0 THEN proposal_id ELSE best

\* lines 192-193
locator_start ==
    /\ pc = "locator"
    /\ best_completed_proposal_id' = 1
    /\ current_block_height' = block_count
    /\ queries' = queries \cup {"block_count"}
    /\ index' = 0
    /\ deadlines' = <<>>
    /\ pc' = "locator_loop"
    /\ UNCHANGED <<failure, envVars, lookback, i, scanned, fedkey_to_address_map,
                   address_to_fedkey_map, highest_proposal_id, num_sda_proposals,
                   tabulateVars, reportVars>>

\* lines 194-198, one proposal id
locator_step ==
    /\ pc = "locator_loop"
    /\ index < highest_proposal_id
    /\ ConfigError(config) = None
    /\ \E ending_height \in EndingHeights(block_count) :
         /\ deadlines' = Append(deadlines, ending_height)
         /\ best_completed_proposal_id' =
                BestCompleted(best_completed_proposal_id, index + 1,
                              ending_height, current_block_height)
    /\ index' = index + 1
    /\ UNCHANGED <<pc, failure, queries, envVars, resolverVars,
                   address_to_fedkey_map, highest_proposal_id, num_sda_proposals,
                   tabulateVars, reportVars>>

\* line 199, and the assignment of line 349
locator_return ==
    /\ pc = "locator_loop"
    /\ index >= highest_proposal_id
    /\ num_sda_proposals' = best_completed_proposal_id
    /\ index' = 0
    /\ pc' = "whitelist"
    /\ UNCHANGED <<failure, queries, envVars, resolverVars, address_to_fedkey_map,
                   highest_proposal_id, deadlines, best_completed_proposal_id,
                   tabulateVars, reportVars>>

\* ------------------------------------ find_whitelisted_federation_addresses
\* lines 26-30, one address of payout_address_list.  The locals of
\* get_last_completed_proposal_id are gone, and run_vote_monitor does not read
\* highest_proposal_id again
whitelist_step ==
    /\ pc = "whitelist"
    /\ index < Len(address_to_fedkey_map)
    /\ ConfigError(config) = None
    /\ \E is_whitelisted \in BOOLEAN :
         current_whitelisted_fed_addresses' =
             IF is_whitelisted
             THEN Append(current_whitelisted_fed_addresses,
                         address_to_fedkey_map[index + 1][1])
             ELSE current_whitelisted_fed_addresses
    /\ index' = index + 1
    /\ deadlines' = <<>>
    /\ highest_proposal_id' = 0
    /\ best_completed_proposal_id' = 0
    /\ current_block_height' = 0
    /\ UNCHANGED <<pc, failure, queries, envVars, lookback, i, scanned,
                   fedkey_to_address_map, address_to_fedkey_map, num_sda_proposals,
                   fed_member_votes, address_index, get_vote_queries, reportVars>>

\* line 31
whitelist_return ==
    /\ pc = "whitelist"
    /\ index >= Len(address_to_fedkey_map)
    /\ index' = 0
    /\ address_index' = 0
    /\ fed_member_votes' = <<>>
    /\ deadlines' = <<>>
    /\ highest_proposal_id' = 0
    /\ best_completed_proposal_id' = 0
    /\ current_block_height' = 0
    /\ pc' = "tabulate"
    /\ UNCHANGED <<failure, queries, envVars, lookback, i, scanned,
                   fedkey_to_address_map, address_to_fedkey_map, num_sda_proposals,
                   current_whitelisted_fed_addresses, get_vote_queries, reportVars>>

\* ------------------------------------------------ tabulate_fed_member_votes
\* the inner loop stopping one proposal short
TabulatedProposalIdsShort(num) ==
    [j \in 1..Len(range(0, num - 1)) |-> range(0, num - 1)[j] + 1]

\* lines 247-248: the proposal ids the inner loop queries
TabulatedProposalIds(num) == [j \in 1..Len(range(0, num)) |-> range(0, num)[j] + 1]

\* lines 256-261: map the enum to the list the proposal id is appended to
Bucket(votes, vote, proposal_id) ==
    IF vote = 0 THEN [votes EXCEPT !.NoVote = Append(@, proposal_id)]
    ELSE IF vote = 1 THEN [votes EXCEPT !.No = Append(@, proposal_id)]
    ELSE IF vote = 2 THEN [votes EXCEPT !.Yes = Append(@, proposal_id)]
    ELSE votes

\* lines 244-246: the next address and its empty substructure
tabulate_address ==
    /\ pc = "tabulate"
    /\ address_index < Len(current_whitelisted_fed_addresses)
    /\ fed_member_votes' =
           DictSet(fed_member_votes,
                   current_whitelisted_fed_addresses[address_index + 1],
                   [NoVote |-> <<>>, No |-> <<>>, Yes |-> <<>>])
    /\ index' = 0
    /\ pc' = "tabulate_votes"
    /\ UNCHANGED <<failure, queries, envVars, resolverVars, address_to_fedkey_map,
                   locatorVars, current_whitelisted_fed_addresses, address_index,
                   get_vote_queries, reportVars>>

\* lines 247-261, one GetVote query
tabulate_vote ==
    /\ pc = "tabulate_votes"
    /\ index < Len(TabulatedProposalIds(num_sda_proposals))
    /\ ConfigError(config) = None
    /\ LET address == current_whitelisted_fed_addresses[address_index + 1]
           proposal_id == TabulatedProposalIds(num_sda_proposals)[index + 1]
       IN  \E vote \in VoteCodes :
             fed_member_votes' =
                 DictSet(fed_member_votes, address,
                         Bucket(DictGet(fed_member_votes, address), vote, proposal_id))
    /\ get_vote_queries' = get_vote_queries + 1
    /\ index' = index + 1
    /\ UNCHANGED <<pc, failure, queries, envVars, resolverVars,
                   address_to_fedkey_map, locatorVars,
                   current_whitelisted_fed_addresses, address_index, reportVars>>

\* the inner loop is exhausted: back to line 244
tabulate_next ==
    /\ pc = "tabulate_votes"
    /\ index >= Len(TabulatedProposalIds(num_sda_proposals))
    /\ address_index' = address_index + 1
    /\ index' = 0
    /\ pc' = "tabulate"
    /\ UNCHANGED <<failure, queries, envVars, resolverVars, address_to_fedkey_map,
                   locatorVars, current_whitelisted_fed_addresses, fed_member_votes,
                   get_vote_queries, reportVars>>

\* line 262
tabulate_return ==
    /\ pc = "tabulate"
    /\ address_index >= Len(current_whitelisted_fed_addresses)
    /\ address_index' = 0
    /\ pc' = "filter"
    /\ UNCHANGED <<failure, queries, envVars, resolverVars, address_to_fedkey_map,
                   locatorVars, index, current_whitelisted_fed_addresses,
                   fed_member_votes, get_vote_queries, reportVars>>

\* -------------------------------------------------- filter_eligible_fedkeys
\* the filter with its test dropped
FilterEligibleKeepAll(votes, map, federation) == votes

\* line 290: keep the entries whose fedkey is in the federation at that height
FilterEligible(votes, map, federation) ==
    LET Eligible(entry) == DictGet(map, entry[1]) \in federation
    IN  SelectSeq(votes, Eligible)

\* lines 287-291, once GetVotingDeadline has answered: the federation at the
\* answered height is the node's answer
filter_with_federation ==
    /\ queries' = queries \cup {"federation_at_height"}
    /\ \E federation \in SUBSET Keys :
         /\ federation_at_end_of_third_last_proposal' = federation
         /\ fed_member_votes' =
                FilterEligible(fed_member_votes, address_to_fedkey_map, federation)
    /\ pc' = "report"
    /\ UNCHANGED failure

\* lines 282-291.  GetVotingDeadline of a proposal of the contract (an id of
\* 1..B) answers its deadline; of any other id (B - 2 < 1) the call either
\* answers some height or raises: the source does not decide which
filter_eligible_fedkeys ==
    /\ pc = "filter"
    /\ ConfigError(config) = None
    /\ \/ /\ num_sda_proposals - 2 >= 1
          /\ filter_with_federation
       \/ /\ num_sda_proposals - 2 < 1
          /\ filter_with_federation
       \/ /\ num_sda_proposals - 2 < 1
          /\ failure' = "LocalCallError"
          /\ pc' = "failed"
          /\ UNCHANGED <<queries, fed_member_votes,
                         federation_at_end_of_third_last_proposal>>
    /\ UNCHANGED <<envVars, resolverVars, address_to_fedkey_map, locatorVars, index,
                   current_whitelisted_fed_addresses, address_index,
                   get_vote_queries, nonvoting_fedkeys, output>>

\* ------------------------------- get_nonvoting_fedkeys_in_last_3_proposals
InList(x, list) == \E j \in 1..Len(list) : list[j] = x

\* the condition with its third conjunct lost
AbstainedOnLast2(v, best_proposal_id) ==
    /\ InList(best_proposal_id, v.NoVote)
    /\ InList(best_proposal_id - 1, v.NoVote)

\* the condition applied only to the ids that can exist (1 and above)
AbstainedOnExistingLast3(v, best_proposal_id) ==
    \A id \in {best_proposal_id, best_proposal_id - 1, best_proposal_id - 2} :
        id >= 1 => InList(id, v.NoVote)

\* the condition of the comprehension, line 309
AbstainedOnLast3(v, best_proposal_id) ==
    /\ InList(best_proposal_id, v.NoVote)
    /\ InList(best_proposal_id - 1, v.NoVote)
    /\ InList(best_proposal_id - 2, v.NoVote)

\* lines 308-310
get_nonvoting_fedkeys_in_last_3_proposals(map, votes, best_proposal_id) ==
    LET Flagged(entry) == AbstainedOnLast3(entry[2], best_proposal_id)
        flagged == SelectSeq(votes, Flagged)
    IN  [j \in 1..Len(flagged) |-> DictGet(map, flagged[j][1])]

\* --------------------------------------------------- markdown_format_output
KeyRank(k) == CHOOSE j \in 1..Len(KeyOrder) : KeyOrder[j] = k

RECURSIVE Insert(_, _)
Insert(sorted, k) ==
    IF sorted = <<>> THEN <<k>>
    ELSE IF KeyRank(k) < KeyRank(Head(sorted)) THEN <<k>> \o sorted
    ELSE <<Head(sorted)>> \o Insert(Tail(sorted), k)

RECURSIVE Sort(_)
Sort(list) == IF list = <<>> THEN <<>> ELSE Insert(Sort(Tail(list)), Head(list))

\* lines 322-326: the header, then one bullet per fedkey, sorted
markdown_format_output(fedkeys) ==
    <<Header>> \o [j \in 1..Len(fedkeys) |-> <<"- ", Sort(fedkeys)[j]>>]

\* lines 373-379
report ==
    /\ pc = "report"
    /\ LET fedkeys == get_nonvoting_fedkeys_in_last_3_proposals(
                          address_to_fedkey_map, fed_member_votes, num_sda_proposals)
       IN  /\ nonvoting_fedkeys' = fedkeys
           /\ output' = markdown_format_output(fedkeys)
    /\ pc' = "done"
    /\ UNCHANGED <<failure, queries, envVars, resolverVars, address_to_fedkey_map,
                   locatorVars, index, tabulateVars,
                   federation_at_end_of_third_last_proposal>>

Next ==
    \/ get_current_federation_pubkeys
    \/ resolver_start
    \/ resolver_scan_height
    \/ resolver_return
    \/ get_last_proposal_id
    \/ locator_start
    \/ locator_step
    \/ locator_return
    \/ whitelist_step
    \/ whitelist_return
    \/ tabulate_address
    \/ tabulate_vote
    \/ tabulate_next
    \/ tabulate_return
    \/ filter_eligible_fedkeys
    \/ report

Spec == Init /\ [][Next]_vars

\* ================================================================ properties
Elems(list) == {list[j] : j \in 1..Len(list)}
Max(S) == CHOOSE x \in S : \A y \in S : y <= x
Last3(b) == {b, b - 1, b - 2}
FedkeyOf(address) == DictGet(address_to_fedkey_map, address)

\* get_last_completed_proposal_id has just returned: its answers are still known
LocatorReturned == pc = "whitelist" /\ index = 0
Completed(id) ==
    /\ id \in 1..Len(deadlines)
    /\ deadlines[id] # 0
    /\ deadlines[id] < block_count
CompletedIds == {id \in 1..Len(deadlines) : Completed(id)}

\* C1: the detector returns the fedkey of a tabulated address iff the NoVote
\* list of that address holds all three of B, B-1 and B-2; an address with one
\* of the three ids in its No or Yes list is not returned.
C1_DelinquencyPredicate ==
    pc = "done" =>
        /\ \A j \in 1..Len(fed_member_votes) :
             LET address == fed_member_votes[j][1]
                 v == fed_member_votes[j][2]
             IN  /\ FedkeyOf(address) \in Elems(nonvoting_fedkeys)
                        <=> Last3(num_sda_proposals) \subseteq Elems(v.NoVote)
                 /\ Last3(num_sda_proposals) \cap (Elems(v.No) \cup Elems(v.Yes)) # {}
                        => FedkeyOf(address) \notin Elems(nonvoting_fedkeys)
        /\ \A k \in Elems(nonvoting_fedkeys) :
             \E j \in 1..Len(fed_member_votes) : FedkeyOf(fed_member_votes[j][1]) = k

\* one address is flagged, another abstained on B and B-1, voted Yes on B-2 and
\* is not
C1_Witness ==
    /\ pc = "done"
    /\ Len(nonvoting_fedkeys) = 1
    /\ \E j \in 1..Len(fed_member_votes) :
         LET v == fed_member_votes[j][2]
         IN  /\ {num_sda_proposals, num_sda_proposals - 1} \subseteq Elems(v.NoVote)
             /\ num_sda_proposals - 2 \in Elems(v.Yes)
             /\ FedkeyOf(fed_member_votes[j][1]) \notin Elems(nonvoting_fedkeys)

\* C2: the three ids the run checks, B, B-1 and B-2 with B the id
\* get_last_completed_proposal_id returned, are each completed and are the
\* three highest completed proposal ids.
C2_ChecksLastThreeCompleted ==
    LocatorReturned =>
        /\ \A id \in Last3(num_sda_proposals) : Completed(id)
        /\ \A id \in CompletedIds \ Last3(num_sda_proposals) :
             id < num_sda_proposals - 2

\* C3: an address whose fedkey is absent from the federation at the deadline of
\* B-2 is not in the tabulation handed to the detector and its fedkey is not
\* reported; every whitelisted address whose fedkey is in that federation is kept.
C3_EligibilityExclusion ==
    pc \in {"report", "done"} =>
        /\ DictKeys(fed_member_votes) =
               {a \in Elems(current_whitelisted_fed_addresses) :
                    FedkeyOf(a) \in federation_at_end_of_third_last_proposal}
        /\ \A a \in DictKeys(address_to_fedkey_map) :
               FedkeyOf(a) \notin federation_at_end_of_third_last_proposal
                   => /\ a \notin DictKeys(fed_member_votes)
                      /\ FedkeyOf(a) \notin Elems(nonvoting_fedkeys)

\* a whitelisted address is excluded while another one is kept and reported
C3_Witness ==
    /\ pc = "done"
    /\ Len(nonvoting_fedkeys) = 1
    /\ \E a \in Elems(current_whitelisted_fed_addresses) :
         /\ FedkeyOf(a) \notin federation_at_end_of_third_last_proposal
         /\ a \notin DictKeys(fed_member_votes)

\* C4: the scan visits the heights of [tip - lookback, tip) in ascending order,
\* and the address recorded for a fedkey is the address seen at the lowest
\* height at which that fedkey produced a block; a fedkey is recorded iff it
\* was seen.
C4_FirstSeenWins ==
    /\ \A j \in 1..Len(scanned) : scanned[j].height = block_count - lookback + j - 1
    /\ \A k \in Keys :
         LET sightings == {j \in 1..Len(scanned) :
                               scanned[j].pubkey = k /\ scanned[j].address # None}
         IN  IF sightings = {}
             THEN ~DictHas(fedkey_to_address_map, k)
             ELSE /\ DictHas(fedkey_to_address_map, k)
                  /\ DictGet(fedkey_to_address_map, k) =
                         scanned[CHOOSE j \in sightings :
                                     \A l \in sightings : j <= l].address

\* the scan is over and a fedkey was seen twice, with two addresses
C4_Witness ==
    /\ pc = "last_proposal_id"
    /\ \E j, l \in 1..Len(scanned) :
         /\ j < l
         /\ scanned[j].pubkey # None
         /\ scanned[j].pubkey = scanned[l].pubkey
         /\ scanned[j].address # scanned[l].address

\* C5: the id returned is the largest id of 1..H whose deadline is nonzero and
\* strictly below the current height, and 1 when no id qualifies.
C5_CompletionWindowing ==
    LocatorReturned =>
        /\ Len(deadlines) = highest_proposal_id
        /\ num_sda_proposals = IF CompletedIds = {} THEN 1 ELSE Max(CompletedIds)

\* the highest id is not completed, a lower one is, and one deadline is unset
C5_Witness ==
    /\ LocatorReturned
    /\ highest_proposal_id >= 3
    /\ num_sda_proposals = highest_proposal_id - 1
    /\ deadlines[highest_proposal_id] = block_count
    /\ 0 \in Elems(deadlines)

\* C6: a height whose producer key is absent, or whose block has no pubkey or
\* pubkeyhash output, does not abort the run.
C6_MissingDataNonFatal ==
    \A j \in 1..Len(scanned) :
        (scanned[j].pubkey = None \/ scanned[j].address = None)
            => ~(pc = "failed" /\ failure = "TypeError")

\* C7 as stated: with the contract address or the sender address missing, no
\* query at all is issued.
C7_NoQueryBeforeConfigFailure ==
    config # ConfigNames => queries = {}

\* C7 as amended: with the contract address or the sender address missing, no
\* contract query (local_call) is ever issued and the run gets no further than
\* the first contract call; when it fails there, the federation-members and
\* block-height queries of the resolver have been issued.
C7_NoContractQueryWithoutConfig ==
    config # ConfigNames =>
        /\ "local_call" \notin queries
        /\ pc \in {"start", "resolver", "scan", "last_proposal_id", "failed"}
        /\ failure = "UndefinedValueError" =>
               {"federation_members", "block_count"} \subseteq queries

\* the run failed on the missing configuration after the scan
C7_Witness ==
    /\ pc = "failed"
    /\ failure = "UndefinedValueError"
    /\ "SDA_CONTRACT_ADDRESS" \in config
    /\ "block" \in queries

\* C8 as stated: no two fedkeys are recorded with the same address, and the
\* inverted map has one entry per recorded fedkey.
C8_InjectiveKeyToAddress ==
    /\ \A j, l \in 1..Len(fedkey_to_address_map) :
         j # l => fedkey_to_address_map[j][2] # fedkey_to_address_map[l][2]
    /\ pc = "last_proposal_id" =>
         Len(address_to_fedkey_map) = Len(fedkey_to_address_map)

\* C8 as amended: every fedkey is recorded once, with one address; the inverted
\* map has exactly one entry per distinct recorded address, and it holds the
\* fedkey recorded last with that address.
C8_OneEntryPerAddress ==
    /\ \A j, l \in 1..Len(fedkey_to_address_map) :
         j # l => fedkey_to_address_map[j][1] # fedkey_to_address_map[l][1]
    /\ pc = "last_proposal_id" =>
         LET recorded == {fedkey_to_address_map[j][2] :
                              j \in 1..Len(fedkey_to_address_map)}
         IN  /\ DictKeys(address_to_fedkey_map) = recorded
             /\ Len(address_to_fedkey_map) = Cardinality(recorded)
             /\ \A a \in recorded :
                  LET last == Max({j \in 1..Len(fedkey_to_address_map) :
                                       fedkey_to_address_map[j][2] = a})
                  IN  FedkeyOf(a) = fedkey_to_address_map[last][1]

\* two fedkeys were recorded with one address and the inversion kept one
C8_Witness ==
    /\ pc = "last_proposal_id"
    /\ Len(fedkey_to_address_map) = 2
    /\ Len(address_to_fedkey_map) = 1

\* C9 as stated: GetVote is queried after the eligibility filter, for the
\* eligible addresses only: (number of eligible addresses) x B queries.
C9_GetVoteAfterFilter ==
    /\ get_vote_queries > 0 => "federation_at_height" \in queries
    /\ pc = "done" => get_vote_queries = Len(fed_member_votes) * num_sda_proposals

\* C9 as amended: the tabulator finishes before the eligibility filter starts;
\* GetVote is queried for every whitelisted address, eligible or not:
\* (number of whitelisted addresses) x B queries.
C9_GetVoteBeforeFilter ==
    /\ get_vote_queries <= Len(current_whitelisted_fed_addresses) * num_sda_proposals
    /\ ("federation_at_height" \in queries \/ pc \in {"filter", "report", "done"}) =>
         get_vote_queries = Len(current_whitelisted_fed_addresses) * num_sda_proposals

\* the run is over, votes were queried for an address the filter removed
C9_Witness ==
    /\ pc = "done"
    /\ get_vote_queries > 0
    /\ Len(fed_member_votes) < Len(current_whitelisted_fed_addresses)

\* C10: when B < 3 and the run completes, no fedkey is flagged and the report
\* is the header line alone.
C10_NothingFlaggedBelow3 ==
    (pc = "done" /\ num_sda_proposals < 3) =>
        /\ nonvoting_fedkeys = <<>>
        /\ output = <<Header>>

\* B = 2 and an eligible address abstained on both proposals
C10_Witness ==
    /\ pc = "done"
    /\ num_sda_proposals = 2
    /\ \E j \in 1..Len(fed_member_votes) : fed_member_votes[j][2].NoVote = <<1, 2>>
====
